---- MODULE Spec2Model ----
(***************************************************************************)
(* Model of manim_ml/neural_network/neural_network.py: the NeuralNetwork   *)
(* diagram (layout of the layers, synthesis of the connective layers, the  *)
(* recentering, and the two animation factories).                          *)
(*                                                                         *)
(* Coordinates are integers.  One unit is frame_width/80 of the default    *)
(* canvas; every coordinate, half-width and half-height of the model is    *)
(* even, so the bounding-box centres are integers as well.                 *)
(* Layer objects are identified by their index in the caller's list        *)
(* (1-based here, Layer[i] of the documentation is layers[i+1]).           *)
(***************************************************************************)
EXTENDS Integers, Sequences, FiniteSets, TLC

\* ---- bounds of the model ------------------------------------------------
MaxLayers == 3
MaxConstructs == 2

\* ---- inputs -------------------------------------------------------------
LayerTypes == {"FeedForwardLayer", "ImageLayer", "OtherLayer"}
LayerSizes == {<<4, 8>>, <<8, 4>>}
LayerPositions == {<<0, 0>>, <<4, 2>>}
FrameWidths == {80, 160}
RunTimes == {10, 3}
EdgeWidths == {15}
DotRadii == {3}

ORIGIN == <<0, 0>>

\* A layer object as the caller built it: type, bounding box, z index.
NewLayer(t, size, pos) ==
    [type |-> t, width |-> size[1], height |-> size[2],
     x |-> pos[1], y |-> pos[2], z_index |-> 0]

LayerObjects == {NewLayer(t, s, p) : t \in LayerTypes, s \in LayerSizes, p \in LayerPositions}

RECURSIVE SeqsOf(_, _)
SeqsOf(S, n) ==
    IF n = 0 THEN {<<>>}
    ELSE {Append(s, e) : s \in SeqsOf(S, n - 1), e \in S}

NoDiagram == [constructed |-> FALSE]
NoAnimation == [animations |-> <<>>]

VARIABLES
    layers,        \* the caller's layer objects (mutated in place by the diagram)
    frame_width,   \* config.frame_width
    nn,            \* the caller's diagram object, NoDiagram while none was produced
    warnings,      \* every warnings.warn call so far, as <<type, type>>
    lastOp,        \* the last operation called
    raised,        \* the exception the last operation raised, "none" if it returned
    animation,     \* the AnimationGroup the last operation returned
    calls,         \* number of NeuralNetwork(...) calls so far
    before,        \* the layer objects on entry to the last NeuralNetwork(...) call
    placed,        \* the layer objects after _place_layers of the last call
    spacings,      \* the spacing values _place_layers computed in the last call
    warnedBefore,  \* Len(warnings) on entry to the last NeuralNetwork(...) call
    prevnn,        \* the diagram the call before the last one produced
    run_time_arg   \* the run_time the last make_forward_pass_animation call was given

vars == <<layers, frame_width, nn, warnings, lastOp, raised, animation, calls,
          before, placed, spacings, warnedBefore, prevnn, run_time_arg>>

\* ---- Mobject helpers ----------------------------------------------------
get_center(m) == <<m.x, m.y>>

shift(m, d) == [m EXCEPT !.x = @ + d[1], !.y = @ + d[2]]

move_to(m, p) == [m EXCEPT !.x = p[1], !.y = p[2]]

Min(S) == CHOOSE a \in S : \A b \in S : a <= b
Max(S) == CHOOSE a \in S : \A b \in S : a >= b

\* ---- _place_layers ------------------------------------------------------
spacing_prev_half_only(fw, previous_layer, current_layer) ==
    (fw * 5) \div 100 + previous_layer.width \div 2

spacing(fw, previous_layer, current_layer) ==
    (fw * 5) \div 100 + (previous_layer.width \div 2 + current_layer.width \div 2)

\* Variants of one placement step: one that keeps the layer's own row, one
\* that shifts without first moving onto the previous layer.
place_one_keep_row(fw, ls, layer_index) ==
    [ls EXCEPT ![layer_index] =
        shift(move_to(ls[layer_index], <<ls[layer_index - 1].x, ls[layer_index].y>>),
              <<spacing(fw, ls[layer_index - 1], ls[layer_index]), 0>>)]

place_one_shift_only(fw, ls, layer_index) ==
    [ls EXCEPT ![layer_index] =
        shift(ls[layer_index],
              <<spacing(fw, ls[layer_index - 1], ls[layer_index]), 0>>)]

place_one(fw, ls, layer_index) ==
    [ls EXCEPT ![layer_index] =
        shift(move_to(ls[layer_index], get_center(ls[layer_index - 1])),
              <<spacing(fw, ls[layer_index - 1], ls[layer_index]), 0>>)]

RECURSIVE place_loop(_, _, _)
place_loop(fw, ls, layer_index) ==
    IF layer_index > Len(ls) THEN ls
    ELSE place_loop(fw, place_one(fw, ls, layer_index), layer_index + 1)

place_layers(fw, ls) ==
    LET moved == place_loop(fw, ls, 2)
    IN [i \in 1..Len(ls) |-> [moved[i] EXCEPT !.z_index = 2]]

RECURSIVE spacing_loop(_, _, _, _)
spacing_loop(fw, ls, layer_index, acc) ==
    IF layer_index > Len(ls) THEN acc
    ELSE spacing_loop(fw, place_one(fw, ls, layer_index), layer_index + 1,
                      Append(acc, spacing(fw, ls[layer_index - 1], ls[layer_index])))

\* ---- connective layer classes (manim_ml.neural_network.connective_layers) --
\* A connective layer keeps references to its two layers and draws between
\* their centres as they are when it is constructed.
FeedForwardToFeedForward(ls, input_layer, output_layer, edge_width) ==
    [kind |-> "FeedForwardToFeedForward",
     input_layer |-> input_layer, output_layer |-> output_layer,
     param |-> edge_width,
     start |-> get_center(ls[input_layer]), end |-> get_center(ls[output_layer]),
     z_index |-> 0]

ImageToFeedForward(ls, input_layer, output_layer, dot_radius) ==
    [kind |-> "ImageToFeedForward",
     input_layer |-> input_layer, output_layer |-> output_layer,
     param |-> dot_radius,
     start |-> get_center(ls[input_layer]), end |-> get_center(ls[output_layer]),
     z_index |-> 0]

\* References held by a VGroup.
LayerRef(i) == [cls |-> "layer", ix |-> i]
ConnectiveRef(j) == [cls |-> "connective", ix |-> j]

\* ---- _construct_connective_layers ---------------------------------------
\* One iteration of the loop over adjacent pairs; acc holds the two VGroups
\* and the warnings emitted so far.
connect_one_no_image(ls, layer_index, acc, edge_width, dot_radius) ==
    LET current_layer == ls[layer_index]
        next_layer == ls[layer_index + 1]
        all1 == Append(acc.all_layers, LayerRef(layer_index))
        j == Len(acc.connective_layers) + 1
    IN  IF next_layer.type = "FeedForwardLayer"
        THEN [acc EXCEPT
                !.connective_layers = Append(@,
                    FeedForwardToFeedForward(ls, layer_index, layer_index + 1, edge_width)),
                !.all_layers = Append(all1, ConnectiveRef(j))]
        ELSE [acc EXCEPT
                !.all_layers = all1,
                !.warnings = Append(@, <<current_layer.type, next_layer.type>>)]

connect_one(ls, layer_index, acc, edge_width, dot_radius) ==
    LET current_layer == ls[layer_index]
        next_layer == ls[layer_index + 1]
        all1 == Append(acc.all_layers, LayerRef(layer_index))
        j == Len(acc.connective_layers) + 1
    IN  IF current_layer.type = "FeedForwardLayer" /\ next_layer.type = "FeedForwardLayer"
        THEN [acc EXCEPT
                !.connective_layers = Append(@,
                    FeedForwardToFeedForward(ls, layer_index, layer_index + 1, edge_width)),
                !.all_layers = Append(all1, ConnectiveRef(j))]
        ELSE IF current_layer.type = "ImageLayer" /\ next_layer.type = "FeedForwardLayer"
        THEN [acc EXCEPT
                !.connective_layers = Append(@,
                    ImageToFeedForward(ls, layer_index, layer_index + 1, dot_radius)),
                !.all_layers = Append(all1, ConnectiveRef(j))]
        ELSE [acc EXCEPT
                !.all_layers = all1,
                !.warnings = Append(@, <<current_layer.type, next_layer.type>>)]

RECURSIVE connect_loop(_, _, _, _, _)
connect_loop(ls, layer_index, acc, edge_width, dot_radius) ==
    IF layer_index > Len(ls) - 1 THEN acc
    ELSE connect_loop(ls, layer_index + 1,
                      connect_one(ls, layer_index, acc, edge_width, dot_radius),
                      edge_width, dot_radius)

\* Variant that adds the final layer only when there is one.
construct_connective_layers_guarded(ls, edge_width, dot_radius) ==
    LET acc == connect_loop(ls, 1,
                   [connective_layers |-> <<>>, all_layers |-> <<>>, warnings |-> <<>>],
                   edge_width, dot_radius)
    IN  [raised |-> "none",
         connective_layers |-> acc.connective_layers,
         all_layers |-> IF Len(ls) = 0 THEN acc.all_layers
                        ELSE Append(acc.all_layers, LayerRef(Len(ls))),
         warnings |-> acc.warnings]

\* Variant that forgets the final layer.
construct_connective_layers_no_final(ls, edge_width, dot_radius) ==
    LET acc == connect_loop(ls, 1,
                   [connective_layers |-> <<>>, all_layers |-> <<>>, warnings |-> <<>>],
                   edge_width, dot_radius)
    IN  [raised |-> IF Len(ls) = 0 THEN "IndexError" ELSE "none",
         connective_layers |-> acc.connective_layers,
         all_layers |-> acc.all_layers,
         warnings |-> acc.warnings]

\* The final self.input_layers[-1] raises IndexError on an empty group.
construct_connective_layers(ls, edge_width, dot_radius) ==
    LET acc == connect_loop(ls, 1,
                   [connective_layers |-> <<>>, all_layers |-> <<>>, warnings |-> <<>>],
                   edge_width, dot_radius)
    IN  IF Len(ls) = 0
        THEN [raised |-> "IndexError", connective_layers |-> acc.connective_layers,
              all_layers |-> acc.all_layers, warnings |-> acc.warnings]
        ELSE [raised |-> "none",
              connective_layers |->
                  [j \in 1..Len(acc.connective_layers) |->
                      [acc.connective_layers[j] EXCEPT !.z_index = 0]],
              all_layers |-> Append(acc.all_layers, LayerRef(Len(ls))),
              warnings |-> acc.warnings]

\* ---- all_layers.move_to(ORIGIN) -----------------------------------------
\* Centre of the bounding box of a group of layers and connective layers
\* (the origin for a group without points).
group_center(ls, cs) ==
    LET xs == {ls[i].x - ls[i].width \div 2 : i \in 1..Len(ls)} \cup
              {ls[i].x + ls[i].width \div 2 : i \in 1..Len(ls)} \cup
              {cs[j].start[1] : j \in 1..Len(cs)} \cup {cs[j].end[1] : j \in 1..Len(cs)}
        ys == {ls[i].y - ls[i].height \div 2 : i \in 1..Len(ls)} \cup
              {ls[i].y + ls[i].height \div 2 : i \in 1..Len(ls)} \cup
              {cs[j].start[2] : j \in 1..Len(cs)} \cup {cs[j].end[2] : j \in 1..Len(cs)}
    IN  IF xs = {} THEN ORIGIN
        ELSE <<(Min(xs) + Max(xs)) \div 2, (Min(ys) + Max(ys)) \div 2>>

\* The translation move_to applies to every member of the group.
recentering(ls, cs) ==
    LET c == group_center(ls, cs) IN <<ORIGIN[1] - c[1], ORIGIN[2] - c[2]>>

shift_connective(c, d) ==
    [c EXCEPT !.start = <<@[1] + d[1], @[2] + d[2]>>,
              !.end = <<@[1] + d[1], @[2] + d[2]>>]

\* Variant that recenters the layers but leaves the connective layers.
group_move_to_origin_layers_only(ls, cs) ==
    LET d == recentering(ls, cs)
    IN  [layers |-> [i \in 1..Len(ls) |-> shift(ls[i], d)],
         connective_layers |-> cs]

group_move_to_origin(ls, cs) ==
    LET d == recentering(ls, cs)
    IN  [layers |-> [i \in 1..Len(ls) |-> shift(ls[i], d)],
         connective_layers |-> [j \in 1..Len(cs) |-> shift_connective(cs[j], d)]]

\* ---- NeuralNetwork.__init__ ---------------------------------------------
\* The outcome of NeuralNetwork(input_layers, ...): the exception raised (if
\* any), the layer objects as the call leaves them, and the object returned.
init(fw, ls, edge_width, dot_radius) ==
    LET pl == place_layers(fw, ls)
        ccl == construct_connective_layers(pl, edge_width, dot_radius)
        moved == group_move_to_origin(pl, ccl.connective_layers)
    IN  IF ccl.raised # "none"
        THEN [raised |-> ccl.raised, layers |-> pl, warnings |-> ccl.warnings,
              nn |-> NoDiagram]
        ELSE [raised |-> "none", layers |-> moved.layers, warnings |-> ccl.warnings,
              nn |-> [constructed |-> TRUE,
                      input_layers |-> [i \in 1..Len(ls) |-> i],
                      edge_width |-> edge_width,
                      dot_radius |-> dot_radius,
                      connective_layers |-> moved.connective_layers,
                      all_layers |-> ccl.all_layers]]

\* ---- make_forward_pass_animation ----------------------------------------
ForwardPass(ref) == [anim |-> "forward_pass", of |-> ref]
CreateAnim(ref) == [anim |-> "Create", of |-> ref]

\* The loop over input_layers[:-1]; indexing connective_layers past its end
\* raises IndexError.
RECURSIVE forward_loop(_, _, _)
forward_loop(d, layer_index, all_animations) ==
    IF layer_index > Len(d.input_layers) - 1
    THEN [raised |-> "none", all_animations |-> all_animations]
    ELSE LET a1 == Append(all_animations, ForwardPass(LayerRef(d.input_layers[layer_index])))
         IN  IF layer_index > Len(d.connective_layers)
             THEN [raised |-> "IndexError", all_animations |-> a1]
             ELSE forward_loop(d, layer_index + 1,
                               Append(a1, ForwardPass(ConnectiveRef(layer_index))))

\* Variant that drops the requested run time for the default.
make_forward_pass_animation_default_time(d, run_time) ==
    LET r == forward_loop(d, 1, <<>>)
    IN  IF r.raised # "none"
        THEN [raised |-> r.raised, animation |-> NoAnimation]
        ELSE [raised |-> "none",
              animation |->
                [animations |-> Append(r.all_animations,
                     ForwardPass(LayerRef(d.input_layers[Len(d.input_layers)]))),
                 run_time |-> 10, lag_ratio |-> 1]]

make_forward_pass_animation(d, run_time) ==
    LET r == forward_loop(d, 1, <<>>)
    IN  IF r.raised # "none"
        THEN [raised |-> r.raised, animation |-> NoAnimation]
        ELSE [raised |-> "none",
              animation |->
                [animations |-> Append(r.all_animations,
                     ForwardPass(LayerRef(d.input_layers[Len(d.input_layers)]))),
                 run_time |-> run_time, lag_ratio |-> 1]]

\* ---- _create_override ---------------------------------------------------
create_override(d) ==
    [animations |-> [k \in 1..Len(d.all_layers) |-> CreateAnim(d.all_layers[k])],
     lag_ratio |-> 1]

\* ---- the state machine --------------------------------------------------
Init ==
    /\ \E n \in 0..MaxLayers : layers \in SeqsOf(LayerObjects, n)
    /\ frame_width \in FrameWidths
    /\ nn = NoDiagram
    /\ warnings = <<>>
    /\ lastOp = "none"
    /\ raised = "none"
    /\ animation = NoAnimation
    /\ calls = 0
    /\ before = layers
    /\ placed = layers
    /\ spacings = <<>>
    /\ warnedBefore = 0
    /\ prevnn = NoDiagram
    /\ run_time_arg = 0

\* nn = NeuralNetwork(layers, edge_width=..., dot_radius=...)
Construct ==
    /\ calls < MaxConstructs
    /\ \E edge_width \in EdgeWidths, dot_radius \in DotRadii :
        LET r == init(frame_width, layers, edge_width, dot_radius)
        IN  /\ layers' = r.layers
            /\ warnings' = warnings \o r.warnings
            /\ raised' = r.raised
            /\ nn' = IF r.raised = "none" THEN r.nn ELSE nn
    /\ lastOp' = "construct"
    /\ animation' = NoAnimation
    /\ calls' = calls + 1
    /\ before' = layers
    /\ placed' = place_layers(frame_width, layers)
    /\ spacings' = spacing_loop(frame_width, layers, 2, <<>>)
    /\ warnedBefore' = Len(warnings)
    /\ prevnn' = nn
    /\ UNCHANGED <<frame_width, run_time_arg>>

\* nn.make_forward_pass_animation(run_time=...)
ForwardPassAnimation ==
    /\ nn.constructed
    /\ \E run_time \in RunTimes :
        LET r == make_forward_pass_animation(nn, run_time)
        IN  /\ raised' = r.raised
            /\ animation' = r.animation
            /\ run_time_arg' = run_time
    /\ lastOp' = "forward"
    /\ UNCHANGED <<layers, frame_width, nn, warnings, calls, before, placed,
                   spacings, warnedBefore, prevnn>>

\* Create(nn)
BuildAnimation ==
    /\ nn.constructed
    /\ animation' = create_override(nn)
    /\ raised' = "none"
    /\ lastOp' = "create"
    /\ UNCHANGED <<layers, frame_width, nn, warnings, calls, before, placed,
                   spacings, warnedBefore, prevnn, run_time_arg>>

Next == Construct \/ ForwardPassAnimation \/ BuildAnimation

Spec == Init /\ [][Next]_vars

\* ---- properties ---------------------------------------------------------
N == Len(layers)

\* The adjacency (layers[i], layers[i+1]) has a connective layer class.
Supported(i) ==
    \/ layers[i].type = "FeedForwardLayer" /\ layers[i + 1].type = "FeedForwardLayer"
    \/ layers[i].type = "ImageLayer" /\ layers[i + 1].type = "FeedForwardLayer"

Unsupported == {i \in 1..(N - 1) : ~Supported(i)}

\* The connective layers of d that were built for the adjacency (i, i+1).
Bridging(d, i) ==
    {j \in 1..Len(d.connective_layers) :
        /\ d.connective_layers[j].input_layer = i
        /\ d.connective_layers[j].output_layer = i + 1}

\* The positions in a sequence of animations or references that are layers.
LayerPositionsIn(refs) == {k \in 1..Len(refs) : refs[k].cls = "layer"}

\* C1: on a diagram with at least one unsupported adjacency,
\* make_forward_pass_animation returns without raising; its animations hold
\* the forward pass of every layer in chain order, and a connective animation
\* stands between Layer[i] and Layer[i+1] only if it is of a connective layer
\* built for exactly that pair.
C1_ForwardPassSkipsMissingConnector ==
    (lastOp = "forward" /\ Unsupported # {}) =>
        /\ raised = "none"
        /\ LET as == animation.animations
               refs == [k \in 1..Len(as) |-> as[k].of]
               lp == LayerPositionsIn(refs)
           IN  /\ Cardinality(lp) = N
               /\ \A k \in lp :
                      refs[k].ix = Cardinality({m \in lp : m <= k})
               /\ \A k \in 1..Len(refs) :
                      refs[k].cls = "connective" =>
                          /\ k > 1 /\ k < Len(refs)
                          /\ refs[k - 1].cls = "layer" /\ refs[k + 1].cls = "layer"
                          /\ refs[k].ix \in Bridging(nn, refs[k - 1].ix)

\* C2: every entry Connector[i] of the connective sequence was built from
\* Layer[i] to Layer[i+1].
C2_ConnectorIndexMatchesPair ==
    nn.constructed =>
        \A j \in 1..Len(nn.connective_layers) :
            /\ nn.connective_layers[j].input_layer = j
            /\ nn.connective_layers[j].output_layer = j + 1

\* C3: the synthesis dispatches on the type pair: (FeedForward, FeedForward)
\* gives one FeedForwardToFeedForward, (Image, FeedForward) gives one
\* ImageToFeedForward, any other pair gives no connective layer and exactly
\* one warning naming the two types; construction of N >= 1 layers never
\* aborts, and the connective sequence has one entry per supported pair.
C3_DispatchAndWarn ==
    (calls > 0 /\ N >= 1) =>
        /\ (lastOp = "construct" => raised = "none")
        /\ nn.constructed
        /\ Len(nn.connective_layers) = (N - 1) - Cardinality(Unsupported)
        /\ \A i \in 1..(N - 1) :
              LET b == Bridging(nn, i)
                  t1 == layers[i].type
                  t2 == layers[i + 1].type
              IN  IF t1 = "FeedForwardLayer" /\ t2 = "FeedForwardLayer"
                  THEN /\ Cardinality(b) = 1
                       /\ \A j \in b :
                            /\ nn.connective_layers[j].kind = "FeedForwardToFeedForward"
                            /\ nn.connective_layers[j].param = nn.edge_width
                  ELSE IF t1 = "ImageLayer" /\ t2 = "FeedForwardLayer"
                  THEN /\ Cardinality(b) = 1
                       /\ \A j \in b :
                            /\ nn.connective_layers[j].kind = "ImageToFeedForward"
                            /\ nn.connective_layers[j].param = nn.dot_radius
                  ELSE b = {}
        /\ Len(warnings) - warnedBefore = Cardinality(Unsupported)
        /\ \A i \in Unsupported :
              warnings[warnedBefore + Cardinality({k \in Unsupported : k <= i})]
                  = <<layers[i].type, layers[i + 1].type>>

C3_Witness ==
    /\ calls > 0 /\ N = 3
    /\ Supported(1) /\ ~Supported(2)
    /\ Len(nn.connective_layers) = 1
    /\ Len(warnings) - warnedBefore = 1

\* C4: constructing from an empty layer sequence raises to the caller: no
\* diagram object is produced, so no connective or display sequence exists.
C4_EmptyConstructFails ==
    (calls > 0 /\ N = 0) =>
        /\ raised = "IndexError"
        /\ lastOp = "construct"
        /\ ~nn.constructed

C4_Witness == calls > 0 /\ N = 0 /\ raised = "IndexError" /\ nn = NoDiagram

\* C5: after layout of N >= 2 layers, the horizontal centre of Layer[i] minus
\* that of Layer[i-1] is 0.05*frame_width plus the two half-widths, hence at
\* least the two half-widths; the recentering keeps these differences.
C5_SpacingExact ==
    (calls > 0 /\ N >= 2) =>
        \A i \in 2..N :
            LET gap == (frame_width * 5) \div 100
                halves == before[i - 1].width \div 2 + before[i].width \div 2
            IN  /\ placed[i].x - placed[i - 1].x = gap + halves
                /\ layers[i].x - layers[i - 1].x = gap + halves
                /\ layers[i].x - layers[i - 1].x >= halves
                /\ layers[i].width = before[i].width

C5_Witness ==
    /\ calls > 0 /\ N = 3
    /\ layers[1].width # layers[2].width
    /\ layers[3].x - layers[2].x # layers[2].x - layers[1].x + (frame_width * 5) \div 100
    /\ before[2].x = before[1].x

\* C6: the layout never moves Layer[0]; its final position differs from the
\* one it had before only by the recentering translation, and that same
\* translation is applied to every layer and connective layer of the display
\* sequence.  For N = 1 no spacing is computed.
C6_AnchorAndUniformRecentering ==
    (calls > 0 /\ N >= 1) =>
        LET d == <<layers[1].x - before[1].x, layers[1].y - before[1].y>>
        IN  /\ get_center(placed[1]) = get_center(before[1])
            /\ \A i \in 1..N :
                  get_center(layers[i]) = <<placed[i].x + d[1], placed[i].y + d[2]>>
            /\ \A j \in 1..Len(nn.connective_layers) :
                  LET c == nn.connective_layers[j]
                  IN  /\ c.start = <<placed[c.input_layer].x + d[1],
                                     placed[c.input_layer].y + d[2]>>
                      /\ c.end = <<placed[c.output_layer].x + d[1],
                                   placed[c.output_layer].y + d[2]>>
            /\ group_center(layers, nn.connective_layers) = ORIGIN
            /\ Len(spacings) = N - 1
            /\ (N = 1 => spacings = <<>>)

C6_Witness ==
    /\ calls > 0 /\ N >= 2
    /\ get_center(layers[1]) # get_center(before[1])
    /\ get_center(before[1]) # ORIGIN
    /\ Len(nn.connective_layers) >= 1

C6_WitnessSingle ==
    calls > 0 /\ N = 1 /\ spacings = <<>> /\ get_center(before[1]) # ORIGIN

\* C7: the display sequence holds every layer exactly once in chain order,
\* every connective layer exactly once between its from-layer and its
\* to-layer, nothing for a skipped adjacency, and ends with the last layer;
\* the Create override emits one Create per element, in this order, with lag
\* ratio 1.
C7_DisplaySequence ==
    nn.constructed =>
        LET al == nn.all_layers
            lp == LayerPositionsIn(al)
        IN  /\ Len(al) = N + Len(nn.connective_layers)
            /\ Cardinality(lp) = N
            /\ \A k \in lp : al[k].ix = Cardinality({m \in lp : m <= k})
            /\ \A j \in 1..Len(nn.connective_layers) :
                  LET at == {k \in 1..Len(al) : al[k] = ConnectiveRef(j)}
                  IN  /\ Cardinality(at) = 1
                      /\ \A k \in at :
                            /\ k > 1 /\ k < Len(al)
                            /\ al[k - 1] = LayerRef(nn.connective_layers[j].input_layer)
                            /\ al[k + 1] = LayerRef(nn.connective_layers[j].output_layer)
                            /\ al[k + 1].ix = al[k - 1].ix + 1
            /\ \A k \in 1..(Len(al) - 1) :
                  (al[k].cls = "layer" /\ al[k].ix \in Unsupported) =>
                      al[k + 1] = LayerRef(al[k].ix + 1)
            /\ al[Len(al)] = LayerRef(N)
            /\ lastOp = "create" =>
                  /\ Len(animation.animations) = Len(al)
                  /\ \A k \in 1..Len(al) :
                        /\ animation.animations[k].anim = "Create"
                        /\ animation.animations[k].of = al[k]
                  /\ animation.lag_ratio = 1

C7_Witness ==
    /\ lastOp = "create" /\ N = 3
    /\ Unsupported = {2}
    /\ Len(animation.animations) = 4

\* C8: when every adjacency is supported, make_forward_pass_animation returns
\* 2N-1 animations ordered Layer[0], Connector[0], Layer[1], ..., Layer[N-1],
\* with lag ratio 1 and the requested run time.
C8_ForwardPassAllSupported ==
    (lastOp = "forward" /\ Unsupported = {}) =>
        /\ raised = "none"
        /\ Len(animation.animations) = 2 * N - 1
        /\ \A i \in 1..N :
              /\ animation.animations[2 * i - 1].anim = "forward_pass"
              /\ animation.animations[2 * i - 1].of = LayerRef(i)
        /\ \A i \in 1..(N - 1) :
              /\ animation.animations[2 * i].anim = "forward_pass"
              /\ animation.animations[2 * i].of.cls = "connective"
              /\ animation.animations[2 * i].of.ix \in Bridging(nn, i)
        /\ animation.lag_ratio = 1
        /\ animation.run_time = run_time_arg

C8_Witness ==
    /\ lastOp = "forward" /\ N = 3 /\ Unsupported = {}
    /\ raised = "none" /\ run_time_arg = 3
    /\ Len(animation.animations) = 5

C8_WitnessSingle ==
    lastOp = "forward" /\ N = 1 /\ Len(animation.animations) = 1

\* C9 as stated: every layer has, after the layout pass and before the
\* recentering, the vertical coordinate it had before the construction.
C9_VerticalPreserved ==
    calls > 0 => \A i \in 1..N : placed[i].y = before[i].y

\* C9 amended: after the layout pass and before the recentering every layer
\* has the vertical coordinate Layer[0] had before the construction; Layer[0]
\* keeps its own, and another layer keeps its own only if it was already on
\* Layer[0]'s row.
C9_VerticalAlignedToFirst ==
    calls > 0 =>
        \A i \in 1..N :
            /\ placed[i].y = before[1].y
            /\ (placed[i].y = before[i].y) <=> (before[i].y = before[1].y)

C9_Witness ==
    /\ calls > 0 /\ N = 3
    /\ before[2].y # before[1].y
    /\ before[3].y # before[2].y
    /\ placed[3].y = before[1].y

\* C10: a second construction on the same layer objects gives the same
\* centre-to-centre offsets between adjacent layers, the same number of
\* connective layers and the same layer/connector pairing as the first.
C10_ConstructIdempotent ==
    (calls >= 2 /\ N >= 1) =>
        /\ \A i \in 2..N :
              /\ layers[i].x - layers[i - 1].x = before[i].x - before[i - 1].x
              /\ layers[i].y - layers[i - 1].y = before[i].y - before[i - 1].y
        /\ prevnn.constructed /\ nn.constructed
        /\ Len(nn.connective_layers) = Len(prevnn.connective_layers)
        /\ \A j \in 1..Len(nn.connective_layers) :
              /\ nn.connective_layers[j].kind = prevnn.connective_layers[j].kind
              /\ nn.connective_layers[j].input_layer = prevnn.connective_layers[j].input_layer
              /\ nn.connective_layers[j].output_layer = prevnn.connective_layers[j].output_layer
        /\ nn.all_layers = prevnn.all_layers

C10_Witness ==
    /\ calls >= 2 /\ N = 3
    /\ lastOp = "construct"
    /\ Len(nn.connective_layers) >= 1
    /\ layers[2].width # layers[3].width
====
